---- MODULE Spec2Model ----
(***************************************************************************)
(* Community feed: the like/unlike request handlers over the PostLike /    *)
(* CommentLike tables, the comment-tree builder and the 24-hour karma      *)
(* leaderboard.                                                            *)
(***************************************************************************)
EXTENDS Integers, Sequences, FiniteSets, TLC

VARIABLES
    \* ---- like / unlike handlers ----
    likes,      \* the like tables: a set of rows [id, user, target]
    nextId,     \* the next primary key the storage layer hands out
    req,        \* req[r]: the request r as issued: [op, user, target]
    pc,         \* pc[r]: where request r's handler stands
    resp,       \* resp[r]: the response of request r ("none" until it returns)
    \* ---- comment tree (retrieve / build_comment_tree) ----
    comments,   \* the flat list handed to build_comment_tree
    idx,        \* position of the for loop in comments
    tree,       \* the dict being built: parent_id -> list of comments
    tpc,        \* "group", "returned", "done", "shown"
    forest,     \* the nested comments of the response
    warnings,   \* ids of the comments reported as data-integrity warnings
    shown,      \* what CommentTree renders of the forest, top to bottom
    \* ---- leaderboard ----
    postLikes,      \* the PostLike rows: [user, author, created_at]
    commentLikes,   \* the CommentLike rows: [user, author, created_at]
    now,            \* timezone.now() as read by the request
    last_24h,       \* now - timedelta(hours=24)
    post_karma,     \* rows of the first aggregate query: [author, karma]
    comment_karma,  \* rows of the second aggregate query: [author, karma]
    user_karma,     \* the dict user_id -> karma, in insertion order
    sorted_users,   \* the sorted, truncated (user, karma) pairs
    lpc,            \* "now", "post", "comment", "combine", "sort", "done", "shown"
    board,          \* the Leaderboard component as rendered by the frontend
    \* ---- frontend like handlers ----
    hasLiked,   \* the user_has_liked flag on display
    handler,    \* the handler that is running
    sent,       \* the request the handler sent: [op, kind]
    thrown,     \* the message of the error the handler caught last
    error,      \* the component's error state
    reloads,    \* how many times loadData / loadPost has been called
    clicks,     \* how many times a like button has been clicked
    upc         \* "idle", "await", "loading"

likeVars == <<likes, nextId, req, pc, resp>>
treeVars == <<comments, idx, tree, tpc, forest, warnings, shown>>
boardVars == <<postLikes, commentLikes, now, last_24h, post_karma, comment_karma,
               user_karma, sorted_users, lpc, board>>
uiVars == <<hasLiked, handler, sent, thrown, error, reloads, clicks, upc>>
nonLikeVars == <<treeVars, boardVars, uiVars>>
nonTreeVars == <<likeVars, boardVars, uiVars>>
nonBoardVars == <<likeVars, treeVars, uiVars>>
nonUiVars == <<likeVars, treeVars, boardVars>>
vars == <<likes, nextId, req, pc, resp, comments, idx, tree, tpc, forest, warnings,
          shown,
          postLikes, commentLikes, now, last_24h, post_karma, comment_karma,
          user_karma, sorted_users, lpc, board,
          hasLiked, handler, sent, thrown, error, reloads, clicks, upc>>

----------------------------------------------------------------------------
(* Bounds of the model *)

MaxReqs == 3
MaxComments == 3
MaxLikes == 3
MaxClicks == 3

(* Program constants *)

PostLikeKarma == 5
CommentLikeKarma == 1
WindowHours == 24
TopN == 5
maxDepth == 4

----------------------------------------------------------------------------
(* Like / unlike                                                           *)

Users == {"u1", "u2"}
Targets == {[kind |-> "post", id |-> 1], [kind |-> "comment", id |-> 1]}
Reqs == 1..MaxReqs
NoReq == [op |-> "none", user |-> "none", target |-> "none"]

\* PostLike.objects.filter(user=..., post=...)
RowsFor(table, u, t) == {row \in table : row.user = u /\ row.target = t}

\* .exists() on that queryset
Exists(table, u, t) == RowsFor(table, u, t) /= {}

\* Meta.constraints: UniqueConstraint(fields=['user', 'post'])
UniqueConstraintMissing(table, u, t) == TRUE
UniqueConstraint(table, u, t) == ~Exists(table, u, t)

\* The INSERT of objects.create(): it commits only if the constraint admits it,
\* otherwise the storage layer raises IntegrityError.
CanInsertUnchecked(table, u, t) == TRUE
CanInsert(table, u, t) == UniqueConstraint(table, u, t)

\* Response({'detail': 'Post liked successfully'})
LikedResponse == "ok"

\* `if not created: return Response({'detail': 'Already liked this post'}, 400)`
NotCreatedSilentOk == "ok"
NotCreatedResponse == "conflict"

\* `except IntegrityError: return Response({'detail': 'Already liked ...'}, 400)`
IntegrityErrorResponse == "conflict"

LikeInit ==
    /\ likes = {}
    /\ nextId = 1
    /\ req = [r \in Reqs |-> NoReq]
    /\ pc = [r \in Reqs |-> "idle"]
    /\ resp = [r \in Reqs |-> "none"]

LikeIdle ==
    /\ likes = {}
    /\ nextId = 1
    /\ req = [r \in Reqs |-> NoReq]
    /\ pc = [r \in Reqs |-> "done"]
    /\ resp = [r \in Reqs |-> "none"]

\* A client sends POST /posts/{id}/like/ or .../unlike/ (likePost, unlikePost,
\* likeComment, unlikeComment).  Requests are numbered in the order they arrive.
Issue(r) ==
    /\ pc[r] = "idle"
    /\ \A q \in Reqs : q < r => pc[q] /= "idle"
    /\ \E op \in {"like", "unlike"}, u \in Users, t \in Targets :
          /\ req' = [req EXCEPT ![r] = [op |-> op, user |-> u, target |-> t]]
          /\ pc' = [pc EXCEPT ![r] = IF op = "like" THEN "get" ELSE "delete"]
    /\ UNCHANGED <<likes, nextId, resp>>
    /\ UNCHANGED nonLikeVars

\* get_or_create, first statement: self.get(user=user, post=post)
LikeGet(r) ==
    /\ pc[r] = "get"
    /\ IF Exists(likes, req[r].user, req[r].target)
          THEN /\ pc' = [pc EXCEPT ![r] = "done"]
               /\ resp' = [resp EXCEPT ![r] = NotCreatedResponse]
          ELSE /\ pc' = [pc EXCEPT ![r] = "create"]
               /\ UNCHANGED resp
    /\ UNCHANGED <<likes, nextId, req>>
    /\ UNCHANGED nonLikeVars

\* get_or_create, after DoesNotExist: self.create(user=user, post=post)
LikeCreate(r) ==
    /\ pc[r] = "create"
    /\ IF CanInsert(likes, req[r].user, req[r].target)
          THEN /\ likes' = likes \cup {[id |-> nextId, user |-> req[r].user,
                                        target |-> req[r].target]}
               /\ nextId' = nextId + 1
               /\ pc' = [pc EXCEPT ![r] = "done"]
               /\ resp' = [resp EXCEPT ![r] = LikedResponse]
          ELSE /\ pc' = [pc EXCEPT ![r] = "reget"]
               /\ UNCHANGED <<likes, nextId, resp>>
    /\ UNCHANGED req
    /\ UNCHANGED nonLikeVars

\* get_or_create, on IntegrityError: self.get() again; the row found gives
\* (obj, False), a row gone in between re-raises the IntegrityError, which the
\* handler's except clause turns into the same 400.
LikeReget(r) ==
    /\ pc[r] = "reget"
    /\ pc' = [pc EXCEPT ![r] = "done"]
    /\ resp' = [resp EXCEPT ![r] =
                  IF Exists(likes, req[r].user, req[r].target)
                     THEN NotCreatedResponse
                     ELSE IntegrityErrorResponse]
    /\ UNCHANGED <<likes, nextId, req>>
    /\ UNCHANGED nonLikeVars

\* unlike: delete the (user, target) row; nothing deleted is the conflict.
Unlike(r) ==
    /\ pc[r] = "delete"
    /\ IF Exists(likes, req[r].user, req[r].target)
          THEN /\ likes' = likes \ RowsFor(likes, req[r].user, req[r].target)
               /\ resp' = [resp EXCEPT ![r] = "ok"]
          ELSE /\ resp' = [resp EXCEPT ![r] = "conflict"]
               /\ UNCHANGED likes
    /\ pc' = [pc EXCEPT ![r] = "done"]
    /\ UNCHANGED <<nextId, req>>
    /\ UNCHANGED nonLikeVars

----------------------------------------------------------------------------
(* Like, initial version: existence check, then insert                     *)

\* The PostLike table of the initial version carries no constraint: every
\* INSERT commits.
ConstraintAdded(table, u, t) == ~Exists(table, u, t)
NoConstraint(table, u, t) == TRUE

\* Response({'detail': 'Already liked'}, status=400)
AlreadyLikedResponse == "conflict"

\* Response({'detail': 'Liked'})
InitialLikedResponse == "ok"

\* an exception that leaves the handler (there is no try/except): a 500
UnhandledErrorResponse == "error"

\* A client sends POST /posts/{id}/like/ (likePost, likeComment).
IssueLike(r) ==
    /\ pc[r] = "idle"
    /\ \A q \in Reqs : q < r => pc[q] /= "idle"
    /\ \E u \in Users, t \in Targets :
          req' = [req EXCEPT ![r] = [op |-> "like", user |-> u, target |-> t]]
    /\ pc' = [pc EXCEPT ![r] = "exists"]
    /\ UNCHANGED <<likes, nextId, resp>>
    /\ UNCHANGED nonLikeVars

\* if PostLike.objects.filter(user=request.user, post=post).exists(): return 400
InitialExists(r) ==
    /\ pc[r] = "exists"
    /\ IF Exists(likes, req[r].user, req[r].target)
          THEN /\ pc' = [pc EXCEPT ![r] = "done"]
               /\ resp' = [resp EXCEPT ![r] = AlreadyLikedResponse]
          ELSE /\ pc' = [pc EXCEPT ![r] = "insert"]
               /\ UNCHANGED resp
    /\ UNCHANGED <<likes, nextId, req>>
    /\ UNCHANGED nonLikeVars

\* PostLike.objects.create(user=request.user, post=post); return Response(...)
InitialCreate(r) ==
    /\ pc[r] = "insert"
    /\ IF NoConstraint(likes, req[r].user, req[r].target)
          THEN /\ likes' = likes \cup {[id |-> nextId, user |-> req[r].user,
                                        target |-> req[r].target]}
               /\ nextId' = nextId + 1
               /\ resp' = [resp EXCEPT ![r] = InitialLikedResponse]
          ELSE /\ resp' = [resp EXCEPT ![r] = UnhandledErrorResponse]
               /\ UNCHANGED <<likes, nextId>>
    /\ pc' = [pc EXCEPT ![r] = "done"]
    /\ UNCHANGED req
    /\ UNCHANGED nonLikeVars

----------------------------------------------------------------------------
(* Comment tree                                                            *)

Null == 0                       \* parent_id of a root comment (None)
CommentIds == 1..MaxComments
\* what a parent_id may hold: None, an id of the input, or an id of no comment
ParentIds == {Null} \cup 1..(MaxComments + 1)

\* Comment rows: created_at is auto_now_add and ids are handed out in insertion
\* order, so a comment's creation time is ordered as its id.
Comment(i, p) == [id |-> i, parent_id |-> p, created_at |-> i]

Injective(s) == \A i, j \in 1..Len(s) : s[i] = s[j] => i = j

\* a flat list of comments with the ids and parent_ids given
CommentList(ids, ps) == [k \in 1..Len(ids) |-> Comment(ids[k], ps[k])]

EmptyDict == [k \in {} |-> <<>>]

\* tree[parent_id].append(comment)
AppendToBucketTwice(bucket, comment) == Append(Append(bucket, comment), comment)
AppendToBucketFront(bucket, comment) == <<comment>> \o bucket
AppendToBucket(bucket, comment) == Append(bucket, comment)

\* the key a comment is filed under: comment.parent_id
BucketKeyRootIfUnknown(list, comment) ==
    IF \E k \in 1..Len(list) : list[k].id = comment.parent_id
       THEN comment.parent_id ELSE Null
BucketKey(list, comment) == comment.parent_id

\* One iteration of `for comment in comments`: create the bucket if the key is
\* new, then append.
GroupIntoSeenParents(dict, list, comment) ==
    LET seen == UNION {{dict[k][i].id : i \in 1..Len(dict[k])} : k \in DOMAIN dict}
        parent_id == IF comment.parent_id \in seen THEN comment.parent_id ELSE Null
        bucket == IF parent_id \in DOMAIN dict THEN dict[parent_id] ELSE <<>>
    IN  [k \in DOMAIN dict \cup {parent_id} |->
            IF k = parent_id THEN Append(bucket, comment) ELSE dict[k]]
GroupInto(dict, list, comment) ==
    LET parent_id == BucketKey(list, comment)
        bucket == IF parent_id \in DOMAIN dict THEN dict[parent_id] ELSE <<>>
    IN  [k \in DOMAIN dict \cup {parent_id} |->
            IF k = parent_id THEN AppendToBucket(bucket, comment) ELSE dict[k]]

\* build_comment_tree as a function of its argument
RECURSIVE GroupPrefix(_, _)
GroupPrefix(list, n) ==
    IF n = 0 THEN EmptyDict ELSE GroupInto(GroupPrefix(list, n - 1), list, list[n])
build_comment_tree(list) == GroupPrefix(list, Len(list))

\* dict.get(key, [])
Get(dict, key) == IF key \in DOMAIN dict THEN dict[key] ELSE <<>>

\* The nested response: the None bucket gives the root comments and every node
\* looks its replies up under its own id.
RECURSIVE BuildNodes(_, _)
BuildNodes(dict, list) ==
    [k \in 1..Len(list) |->
        [comment |-> list[k], replies |-> BuildNodes(dict, Get(dict, list[k].id))]]

\* a thread in which every comment but the first replies to the one before
Chain(n) == [k \in 1..n |-> Comment(k, IF k = 1 THEN Null ELSE k - 1)]

\* const actualDepth = Math.min(depth, maxDepth)
actualDepth(depth) == IF depth < maxDepth THEN depth ELSE maxDepth

\* {actualDepth < maxDepth && (<button ...>Reply</button>)}
ReplyOfferedAtMaxDepth(depth) == actualDepth(depth) <= maxDepth
ReplyOffered(depth) == actualDepth(depth) < maxDepth

\* CommentTree({ comments, depth = 0 }): comments.map renders each comment,
\* with its Reply button or without, and below it, when comment.replies is not
\* empty, a CommentTree of the replies at depth + 1.
RECURSIVE CommentTree(_, _)
CommentTree(nodes, depth) ==
    IF nodes = <<>> THEN <<>>
    ELSE <<[id |-> Head(nodes).comment.id, depth |-> depth,
            reply |-> ReplyOffered(depth)]>>
         \o (IF Len(Head(nodes).replies) > 0
                THEN CommentTree(Head(nodes).replies, depth + 1)
                ELSE <<>>)
         \o CommentTree(Tail(nodes), depth)

\* every flat list of at most MaxComments comments with distinct ids, and the
\* threads that go up to two levels below maxDepth
TreeInit ==
    /\ \/ \E n \in 0..MaxComments :
             \E ids \in [1..n -> CommentIds], ps \in [1..n -> ParentIds] :
                 /\ Injective(ids)
                 /\ comments = CommentList(ids, ps)
       \/ \E n \in 1..(maxDepth + 3) : comments = Chain(n)
    /\ idx = 1
    /\ tree = EmptyDict
    /\ tpc = "group"
    /\ forest = <<>>
    /\ warnings = {}
    /\ shown = <<>>

TreeIdle ==
    /\ comments = <<>>
    /\ idx = 1
    /\ tree = EmptyDict
    /\ tpc = "done"
    /\ forest = <<>>
    /\ warnings = {}
    /\ shown = <<>>

\* for comment in comments: ... (one iteration)
GroupStep ==
    /\ tpc = "group"
    /\ idx <= Len(comments)
    /\ tree' = GroupInto(tree, comments, comments[idx])
    /\ idx' = idx + 1
    /\ UNCHANGED <<comments, tpc, forest, warnings>>
    /\ UNCHANGED shown
    /\ UNCHANGED nonTreeVars

\* return tree
TreeReturn ==
    /\ tpc = "group"
    /\ idx > Len(comments)
    /\ tpc' = "returned"
    /\ UNCHANGED <<comments, idx, tree, forest, warnings>>
    /\ UNCHANGED shown
    /\ UNCHANGED nonTreeVars

\* the response's nested comments are materialised from the grouping
Materialize ==
    /\ tpc = "returned"
    /\ forest' = BuildNodes(tree, Get(tree, Null))
    /\ tpc' = "done"
    /\ UNCHANGED <<comments, idx, tree, warnings>>
    /\ UNCHANGED shown
    /\ UNCHANGED nonTreeVars

\* PostDetail renders <CommentTree comments={post.comments} ... />
RenderTree ==
    /\ tpc = "done"
    /\ shown' = CommentTree(forest, 0)
    /\ tpc' = "shown"
    /\ UNCHANGED <<comments, idx, tree, forest, warnings>>
    /\ UNCHANGED nonTreeVars

----------------------------------------------------------------------------
(* Leaderboard                                                             *)

BoardUsers == 1..(TopN + 1)
\* Clock readings, in hours.  The likes below are stamped 76 or 77: with the
\* clock at 100 the cut-off is 76 (a like at 76 is on the boundary, one at 77
\* inside), with the clock at 101 it is 77 (76 is an hour too old, 77 on the
\* boundary).
Nows == {100, 101}

LikeRow(u, a, t) == [user |-> u, author |-> a, created_at |-> t]

\* The 16 kinds of like a small table is drawn from: liker and author among
\* users 1 and 2, either timestamp, either table.
LikeType(i) ==
    [kind |-> IF i \div 8 = 0 THEN "post" ELSE "comment",
     row |-> LikeRow(1 + ((i \div 4) % 2), 1 + ((i \div 2) % 2), 76 + (i % 2))]

Rows(types, kind) ==
    LET sel == SelectSeq(types, LAMBDA x : x.kind = kind)
    IN  [k \in 1..Len(sel) |-> sel[k].row]

\* the rows of a bag of likes, listed in one order
Ascending(f) == \A i, j \in 1..Len(f) : i < j => f[i] <= f[j]
LikeTypes(f) == [k \in 1..Len(f) |-> LikeType(f[k])]

RECURSIVE SetToSeq(_)
SetToSeq(S) ==
    IF S = {} THEN <<>>
    ELSE LET m == CHOOSE x \in S : \A y \in S : x <= y
         IN  <<m>> \o SetToSeq(S \ {m})

\* one fresh post-like for each author of a set of users, each from the next
\* user
OneLikeEach(A) ==
    [k \in 1..Cardinality(A) |->
        LikeRow(1 + (SetToSeq(A)[k] % (TopN + 1)), SetToSeq(A)[k], 77)]

\* filter(created_at__gte=cutoff)
InWindowStrict(row, cutoff) == row.created_at > cutoff
InWindow(row, cutoff) == row.created_at >= cutoff

\* .values('post__author'): the column the rows are grouped by
GroupKeyLiker(row) == row.user
GroupKey(row) == row.author

Unfiltered(table, cutoff) == table
Filtered(table, cutoff) == SelectSeq(table, LAMBDA row : InWindow(row, cutoff))

\* Count('id') of one group
CountFor(table, cutoff, a) ==
    Len(SelectSeq(Filtered(table, cutoff), LAMBDA row : GroupKey(row) = a))

GroupsOfAllRows(table, cutoff) == {GroupKey(table[k]) : k \in 1..Len(table)}
Groups(table, cutoff) ==
    {GroupKey(Filtered(table, cutoff)[k]) : k \in 1..Len(Filtered(table, cutoff))}

\* The rows of filter(...).values(author).annotate(karma=Count('id') * weight):
\* one row per author; the query has no ORDER BY, so the rows come in any order.
AggregateRows(table, cutoff, weight) ==
    LET G == Groups(table, cutoff)
        n == Cardinality(G)
    IN  { [k \in 1..n |-> [author |-> o[k],
                           karma |-> CountFor(table, cutoff, o[k]) * weight]] :
              o \in {f \in [1..n -> G] : \A i, j \in 1..n : f[i] = f[j] => i = j} }

\* user_karma[user_id] = user_karma.get(user_id, 0) + entry['karma']
AddKarmaOverwrite(dict, user_id, karma) ==
    IF \E k \in 1..Len(dict) : dict[k].user = user_id
       THEN [k \in 1..Len(dict) |->
                IF dict[k].user = user_id
                   THEN [user |-> user_id, karma |-> karma] ELSE dict[k]]
       ELSE Append(dict, [user |-> user_id, karma |-> karma])
AddKarma(dict, user_id, karma) ==
    IF \E k \in 1..Len(dict) : dict[k].user = user_id
       THEN [k \in 1..Len(dict) |->
                IF dict[k].user = user_id
                   THEN [user |-> user_id, karma |-> dict[k].karma + karma]
                   ELSE dict[k]]
       ELSE Append(dict, [user |-> user_id, karma |-> karma])

\* for entry in <query rows>: user_karma[...] = ...
RECURSIVE AddAll(_, _)
AddAll(dict, rows) ==
    IF rows = <<>> THEN dict
    ELSE AddAll(AddKarma(dict, Head(rows).author, Head(rows).karma), Tail(rows))

\* sorted(items, key=lambda x: x[1], reverse=True): a stable sort, so entries
\* of equal karma keep the order they have in the dict.
SortedByKarma(items) ==
    LET n == Len(items)
        pos(i) == 1 + Cardinality({j \in 1..n : items[j].karma > items[i].karma})
                    + Cardinality({j \in 1..(i - 1) : items[j].karma = items[i].karma})
    IN  [p \in 1..n |-> items[CHOOSE i \in 1..n : pos(i) = p]]

\* [:5]
Truncate(items) == SubSeq(items, 1, IF Len(items) < TopN THEN Len(items) ELSE TopN)

\* The body of GET /leaderboard/: one entry per pair of sorted_users, in order.
LeaderboardResponse(pairs) ==
    [k \in 1..Len(pairs) |-> [id |-> pairs[k].user, karma_24h |-> pairs[k].karma]]

\* {index + 1}: the rank shown for the entry at 0-based position index
RankFromZero(index) == index
Rank(index) == index + 1

\* Leaderboard({ users }): the "No karma earned yet today" line when users is
\* empty, otherwise users.map((user, index) => ...), one row per entry.
Leaderboard(users) ==
    [empty |-> Len(users) = 0,
     rows |-> [k \in 1..Len(users) |->
                  [rank |-> Rank(k - 1), id |-> users[k].id,
                   karma |-> users[k].karma_24h]]]

\* useState([]): what is on screen before the first response arrives
InitialBoard == Leaderboard(<<>>)

\* The rows sorted_users can hold for given tables and a given clock reading:
\* leaderboard as a function of what it reads.
leaderboard(posts, cmts, t) ==
    { Truncate(SortedByKarma(AddAll(AddAll(<<>>, pk), ck))) :
          pk \in AggregateRows(posts, t - WindowHours, PostLikeKarma),
          ck \in AggregateRows(cmts, t - WindowHours, CommentLikeKarma) }

\* one fresh post-like for author p and as many fresh comment-likes, from
\* different users, for author c as a post-like is worth
TiedPostLike(p) == <<LikeRow(3, p, 77)>>
TiedCommentLikes(c) == [k \in 1..PostLikeKarma |-> LikeRow(2 + k, c, 77)]

\* The tables: at most MaxLikes likes in all, of any of the 16 kinds, or one
\* fresh post-like for each author of a set of up to TopN + 1 users, or one
\* post-like for one author and five comment-likes for one author.
BoardInit ==
    /\ \/ \E n \in 0..MaxLikes :
             \E f \in [1..n -> 0..15] :
                 /\ Ascending(f)
                 /\ postLikes = Rows(LikeTypes(f), "post")
                 /\ commentLikes = Rows(LikeTypes(f), "comment")
       \/ \E A \in SUBSET BoardUsers :
             /\ postLikes = OneLikeEach(A)
             /\ commentLikes = <<>>
       \/ \E p, c \in {1, 2} :
             /\ postLikes = TiedPostLike(p)
             /\ commentLikes = TiedCommentLikes(c)
    /\ now = 0
    /\ last_24h = 0
    /\ post_karma = <<>>
    /\ comment_karma = <<>>
    /\ user_karma = <<>>
    /\ sorted_users = <<>>
    /\ lpc = "now"
    /\ board = InitialBoard

BoardIdle ==
    /\ postLikes = <<>>
    /\ commentLikes = <<>>
    /\ now = 0
    /\ last_24h = 0
    /\ post_karma = <<>>
    /\ comment_karma = <<>>
    /\ user_karma = <<>>
    /\ sorted_users = <<>>
    /\ lpc = "done"
    /\ board = InitialBoard

\* now = timezone.now(); last_24h = now - timedelta(hours=24)
LbNow ==
    /\ lpc = "now"
    /\ \E t \in Nows : now' = t /\ last_24h' = t - WindowHours
    /\ lpc' = "post"
    /\ UNCHANGED <<postLikes, commentLikes, post_karma, comment_karma, user_karma,
                   sorted_users>>
    /\ UNCHANGED board
    /\ UNCHANGED nonBoardVars

\* post_karma = PostLike.objects.filter(...).values(...).annotate(Count * 5)
LbPostKarma ==
    /\ lpc = "post"
    /\ post_karma' \in AggregateRows(postLikes, last_24h, PostLikeKarma)
    /\ lpc' = "comment"
    /\ UNCHANGED <<postLikes, commentLikes, now, last_24h, comment_karma, user_karma,
                   sorted_users>>
    /\ UNCHANGED board
    /\ UNCHANGED nonBoardVars

\* comment_karma = CommentLike.objects.filter(...).values(...).annotate(Count)
LbCommentKarma ==
    /\ lpc = "comment"
    /\ comment_karma' \in AggregateRows(commentLikes, last_24h, CommentLikeKarma)
    /\ lpc' = "combine"
    /\ UNCHANGED <<postLikes, commentLikes, now, last_24h, post_karma, user_karma,
                   sorted_users>>
    /\ UNCHANGED board
    /\ UNCHANGED nonBoardVars

\* the two loops that fill user_karma
LbCombine ==
    /\ lpc = "combine"
    /\ user_karma' = AddAll(AddAll(<<>>, post_karma), comment_karma)
    /\ lpc' = "sort"
    /\ UNCHANGED <<postLikes, commentLikes, now, last_24h, post_karma, comment_karma,
                   sorted_users>>
    /\ UNCHANGED board
    /\ UNCHANGED nonBoardVars

\* sorted_users = sorted(user_karma.items(), ...)[:5]
LbSort ==
    /\ lpc = "sort"
    /\ sorted_users' = Truncate(SortedByKarma(user_karma))
    /\ lpc' = "done"
    /\ UNCHANGED <<postLikes, commentLikes, now, last_24h, post_karma, comment_karma,
                   user_karma>>
    /\ UNCHANGED board
    /\ UNCHANGED nonBoardVars

\* loadData: setLeaderboard(leaderboardData), then <Leaderboard users={...} />
LbRender ==
    /\ lpc = "done"
    /\ board' = Leaderboard(LeaderboardResponse(sorted_users))
    /\ lpc' = "shown"
    /\ UNCHANGED <<postLikes, commentLikes, now, last_24h, post_karma, comment_karma,
                   user_karma, sorted_users>>
    /\ UNCHANGED nonBoardVars

----------------------------------------------------------------------------
(* Frontend like handlers                                                  *)

\* Messages are sequences of words.
NoMessage == <<>>
AlreadyLikedThisPost == <<"Already", "liked", "this", "post">>
AlreadyLikedInitial == <<"Already", "liked">>
RequestFailed == <<"Request", "failed">>

\* the detail of an error response: one of the 400 bodies, or a body without
\* detail (or not JSON at all)
FailureDetails == {AlreadyLikedThisPost, AlreadyLikedInitial, NoMessage}

\* App.handleLikePost, PostDetail.handleLikePost, PostDetail.handleLikeComment
Handlers == {"App.handleLikePost", "PostDetail.handleLikePost",
             "PostDetail.handleLikeComment"}

KindOf(h) == IF h = "PostDetail.handleLikeComment" THEN "comment" ELSE "post"

NoRequest == [op |-> "none", kind |-> "none"]

\* String.prototype.includes
Includes(s, sub) ==
    \E i \in 0..(Len(s) - Len(sub)) : SubSeq(s, i + 1, i + Len(sub)) = sub

\* fetchApi on a response that is not ok: throw new Error(error.detail ||
\* 'Request failed')
FetchApiError(detail) == IF detail = NoMessage THEN RequestFailed ELSE detail

\* if (hasLiked) await unlike...(id) else await like...(id)
OpFor(flag) == IF flag THEN "unlike" ELSE "like"

\* !err.message.includes('Already') guards setError
IgnoredNever(message) == FALSE
Ignored(message) == Includes(message, <<"Already">>)

UiInit ==
    /\ hasLiked \in BOOLEAN
    /\ handler = "none"
    /\ sent = NoRequest
    /\ thrown = NoMessage
    /\ error = NoMessage
    /\ reloads = 0
    /\ clicks = 0
    /\ upc = "idle"

UiIdle ==
    /\ hasLiked = FALSE
    /\ handler = "none"
    /\ sent = NoRequest
    /\ thrown = NoMessage
    /\ error = NoMessage
    /\ reloads = 0
    /\ clicks = 0
    /\ upc = "off"

\* The like button is clicked: the handler sends unlike or like and awaits.
HandleLike(h) ==
    /\ upc = "idle"
    /\ clicks < MaxClicks
    /\ clicks' = clicks + 1
    /\ handler' = h
    /\ sent' = [op |-> OpFor(hasLiked), kind |-> KindOf(h)]
    /\ upc' = "await"
    /\ UNCHANGED <<hasLiked, thrown, error, reloads>>
    /\ UNCHANGED nonUiVars

\* The request resolves: loadData() / loadPost() is called.
LikeResolved ==
    /\ upc = "await"
    /\ reloads' = reloads + 1
    /\ upc' = "loading"
    /\ UNCHANGED <<hasLiked, handler, sent, thrown, error, clicks>>
    /\ UNCHANGED nonUiVars

\* The request fails: fetchApi throws, and the catch block sets the error
\* state unless the message includes 'Already'.
LikeRejected ==
    /\ upc = "await"
    /\ \E detail \in FailureDetails :
          /\ thrown' = FetchApiError(detail)
          /\ error' = IF Ignored(FetchApiError(detail))
                         THEN error ELSE FetchApiError(detail)
    /\ upc' = "idle"
    /\ UNCHANGED <<hasLiked, handler, sent, reloads, clicks>>
    /\ UNCHANGED nonUiVars

\* loadData / loadPost ends: the flag on display is what the server reports,
\* or the load failed and its catch block sets the error state.
LoadDone ==
    /\ upc = "loading"
    /\ \/ /\ hasLiked' \in BOOLEAN
          /\ UNCHANGED error
       \/ /\ error' = RequestFailed
          /\ UNCHANGED hasLiked
    /\ upc' = "idle"
    /\ UNCHANGED <<handler, sent, thrown, reloads, clicks>>
    /\ UNCHANGED nonUiVars

----------------------------------------------------------------------------
(* Specifications                                                          *)

\* the like and unlike requests, served concurrently
Init == LikeInit /\ TreeIdle /\ BoardIdle /\ UiIdle

Next ==
    \E r \in Reqs :
        \/ Issue(r)
        \/ LikeGet(r)
        \/ LikeCreate(r)
        \/ LikeReget(r)
        \/ Unlike(r)

Spec == Init /\ [][Next]_vars

\* the like requests served concurrently by the initial version of the
\* handler; a request that has reached its INSERT carries it out
InitInitial == LikeInit /\ TreeIdle /\ BoardIdle /\ UiIdle

NextInitial ==
    \E r \in Reqs :
        \/ IssueLike(r)
        \/ InitialExists(r)
        \/ InitialCreate(r)

SpecInitial ==
    /\ InitInitial
    /\ [][NextInitial]_vars
    /\ \A r \in Reqs : WF_vars(InitialCreate(r))

\* build_comment_tree and the nested response, over every flat comment list
InitTree == LikeIdle /\ TreeInit /\ BoardIdle /\ UiIdle

NextTree ==
    \/ GroupStep
    \/ TreeReturn
    \/ Materialize
    \/ RenderTree

SpecTree == InitTree /\ [][NextTree]_vars

\* the leaderboard request, over every pair of like tables
InitBoard == LikeIdle /\ TreeIdle /\ BoardInit /\ UiIdle

NextBoard ==
    \/ LbNow
    \/ LbPostKarma
    \/ LbCommentKarma
    \/ LbCombine
    \/ LbSort
    \/ LbRender

SpecBoard == InitBoard /\ [][NextBoard]_vars

\* the like buttons of the frontend, clicked up to MaxClicks times
InitUi == LikeIdle /\ TreeIdle /\ BoardIdle /\ UiInit

NextUi ==
    \/ \E h \in Handlers : HandleLike(h)
    \/ LikeResolved
    \/ LikeRejected
    \/ LoadDone

SpecUi == InitUi /\ [][NextUi]_vars

----------------------------------------------------------------------------
(* Properties of the like and unlike handlers (checked under Spec)         *)

Liked(table, r) == Exists(table, req[r].user, req[r].target)

SamePair(r, q) == req[r].user = req[q].user /\ req[r].target = req[q].target

\* r1 and r2 are like requests of one actor for one target, and no other
\* request has been sent for that (actor, target): the pair started NotLiked.
TwoLikesAlone(r1, r2) ==
    /\ r1 /= r2
    /\ req[r1].op = "like" /\ req[r2].op = "like"
    /\ SamePair(r1, r2)
    /\ \A q \in Reqs \ {r1, r2} : req[q] /= NoReq => ~SamePair(q, r1)

\* C1: whatever the interleaving of two concurrent like requests of one actor
\* for one target that starts NotLiked, no request ends in an unhandled
\* failure; once both have returned exactly one has succeeded and the other got
\* the conflict, and one row exists for the pair; a request whose INSERT lost
\* the race finds the winner's single row in place.
C1_ConcurrentLikesOneWinner ==
    \A r1, r2 \in Reqs :
        TwoLikesAlone(r1, r2) =>
            /\ resp[r1] \in {"none", "ok", "conflict"}
            /\ (pc[r1] = "done" /\ pc[r2] = "done") =>
                  /\ {resp[r1], resp[r2]} = {"ok", "conflict"}
                  /\ Cardinality(RowsFor(likes, req[r1].user, req[r1].target)) = 1
            /\ pc[r2] = "reget" =>
                  /\ pc[r1] = "done" /\ resp[r1] = "ok"
                  /\ Cardinality(RowsFor(likes, req[r1].user, req[r1].target)) = 1

\* Both requests passed the existence check before either INSERT committed: the
\* first INSERT won and the second one hit the constraint.
C1_RaceLost ==
    \E r1, r2 \in Reqs :
        /\ TwoLikesAlone(r1, r2)
        /\ pc[r1] = "done" /\ resp[r1] = "ok"
        /\ pc[r2] = "reget"

LikeWeight(t) == IF t.kind = "post" THEN PostLikeKarma ELSE CommentLikeKarma

\* what the likes of actor u on target t are worth to the target's author
KarmaContribution(table, u, t) == LikeWeight(t) * Cardinality(RowsFor(table, u, t))

\* C2: in every reachable state there is at most one like row per (actor,
\* target, kind), so one actor is worth at most one like's karma (5 for a
\* post, 1 for a comment) on a given target.
C2_AtMostOneLikePerPair ==
    \A u \in Users, t \in Targets :
        /\ Cardinality(RowsFor(likes, u, t)) <= 1
        /\ KarmaContribution(likes, u, t) <= LikeWeight(t)

\* like, unlike, like again by one actor on one target, all successful: the
\* pair holds one row.
C2_LikedAgain ==
    \E r1, r2, r3 \in Reqs :
        /\ SamePair(r1, r2) /\ SamePair(r1, r3)
        /\ req[r1].op = "like" /\ req[r2].op = "unlike" /\ req[r3].op = "like"
        /\ r1 /= r3
        /\ resp[r1] = "ok" /\ resp[r2] = "ok" /\ resp[r3] = "ok"
        /\ Cardinality(RowsFor(likes, req[r1].user, req[r1].target)) = 1

\* C3: at the statement that decides a request, like on a NotLiked pair
\* succeeds and leaves it Liked; like on a Liked pair leaves it Liked and
\* answers with the conflict; unlike on a Liked pair succeeds and leaves it
\* NotLiked; unlike on a NotLiked pair answers with the conflict and leaves it
\* NotLiked.
C3_LikeUnlikeTransitions ==
    [][\A r \in Reqs :
          /\ (pc[r] = "get" /\ pc'[r] = "done") =>
                Liked(likes, r) /\ Liked(likes', r) /\ resp'[r] = "conflict"
          /\ (pc[r] = "create" /\ pc'[r] /= "create") =>
                IF ~Liked(likes, r)
                   THEN Liked(likes', r) /\ pc'[r] = "done" /\ resp'[r] = "ok"
                   ELSE Liked(likes', r) /\ pc'[r] = "reget"
          /\ (pc[r] = "reget" /\ pc'[r] = "done") =>
                likes' = likes /\ resp'[r] = "conflict"
          /\ (pc[r] = "delete" /\ pc'[r] = "done") =>
                IF Liked(likes, r)
                   THEN ~Liked(likes', r) /\ resp'[r] = "ok"
                   ELSE ~Liked(likes', r) /\ resp'[r] = "conflict"
      ]_vars

\* One pair went NotLiked -> Liked (like: ok), stayed Liked (like: conflict)
\* and went back to NotLiked (unlike: ok).
C3_AllThreeAnswered ==
    \E r1, r2, r3 \in Reqs :
        /\ SamePair(r1, r2) /\ SamePair(r1, r3)
        /\ req[r1].op = "like" /\ resp[r1] = "ok"
        /\ req[r2].op = "like" /\ resp[r2] = "conflict"
        /\ req[r3].op = "unlike" /\ resp[r3] = "ok"
        /\ ~Liked(likes, r1)

----------------------------------------------------------------------------
(* Properties of the initial like handler (checked under SpecInitial)      *)

\* both requests are likes of one actor for one target, both passed the
\* existence check and neither has inserted yet
BothChecksPassed(r1, r2) ==
    /\ r1 /= r2
    /\ SamePair(r1, r2)
    /\ pc[r1] = "insert" /\ pc[r2] = "insert"

BothSucceededTwoRows(r1, r2) ==
    /\ pc[r1] = "done" /\ resp[r1] = "ok"
    /\ pc[r2] = "done" /\ resp[r2] = "ok"
    /\ Cardinality(RowsFor(likes, req[r1].user, req[r1].target)) >= 2

\* C16: with the existence check followed by an insert and no uniqueness
\* constraint in the storage layer, whenever two like requests of one actor
\* for one target have both passed the check before either insert committed,
\* both requests go on to succeed and two rows exist for the pair.
C16_BothChecksPassThenTwoRows ==
    \A r1, r2 \in Reqs : BothChecksPassed(r1, r2) ~> BothSucceededTwoRows(r1, r2)

\* Two like requests alone on a pair both answered with success and the pair
\* holds two rows.
C16_TwoLikesTwoRows ==
    \E r1, r2 \in Reqs :
        /\ TwoLikesAlone(r1, r2)
        /\ pc[r1] = "done" /\ resp[r1] = "ok"
        /\ pc[r2] = "done" /\ resp[r2] = "ok"
        /\ Cardinality(RowsFor(likes, req[r1].user, req[r1].target)) = 2

----------------------------------------------------------------------------
(* Properties of the comment tree (checked under SpecTree)                 *)

\* the subsequence of a flat list whose parent_id is p
ChildrenOf(list, p) == SelectSeq(list, LAMBDA c : c.parent_id = p)

\* the comments of a list of nodes, in order
CommentsOf(nodes) == [k \in 1..Len(nodes) |-> nodes[k].comment]

\* every node of a forest, in pre-order
RECURSIVE NodesOf(_)
NodesOf(nodes) ==
    IF nodes = <<>> THEN <<>>
    ELSE <<Head(nodes)>> \o NodesOf(Head(nodes).replies) \o NodesOf(Tail(nodes))

AscendingCreatedAt(list) ==
    \A i, j \in 1..Len(list) : i < j => list[i].created_at <= list[j].created_at

HasId(list, i) == \E k \in 1..Len(list) : list[k].id = i

\* parent_id names no comment of the list
Dangling(list, c) == c.parent_id /= Null /\ ~HasId(list, c.parent_id)

SelfReferential(c) == c.parent_id = c.id

\* the chain of parent_ids of c ends at None within n steps
RECURSIVE Rooted(_, _, _)
Rooted(list, c, n) ==
    \/ c.parent_id = Null
    \/ /\ n > 0
       /\ \E k \in 1..Len(list) :
             list[k].id = c.parent_id /\ Rooted(list, list[k], n - 1)

InForest(c) == \E k \in 1..Len(NodesOf(forest)) : NodesOf(forest)[k].comment = c

\* C4: in the finished forest the roots are, in the same order, the input
\* comments with no parent, and every node's replies are, in the same order, the
\* input comments whose parent_id is that node's id; for an input sorted by
\* created_at the roots and every replies list are in ascending creation order.
C4_ChildrenAreInputSubsequence ==
    tpc = "done" =>
        /\ CommentsOf(forest) = ChildrenOf(comments, Null)
        /\ \A k \in 1..Len(NodesOf(forest)) :
              CommentsOf(NodesOf(forest)[k].replies)
                  = ChildrenOf(comments, NodesOf(forest)[k].comment.id)
        /\ AscendingCreatedAt(comments) =>
              /\ AscendingCreatedAt(CommentsOf(forest))
              /\ \A k \in 1..Len(NodesOf(forest)) :
                    AscendingCreatedAt(CommentsOf(NodesOf(forest)[k].replies))

\* Scenario A without its last comment: one root (id 1) with replies 2, 3 in
\* that order.
C4_RootWithTwoReplies ==
    /\ tpc = "done"
    /\ comments = <<Comment(1, Null), Comment(2, 1), Comment(3, 1)>>
    /\ Len(forest) = 1
    /\ forest[1].comment.id = 1
    /\ CommentsOf(forest[1].replies) = <<Comment(2, 1), Comment(3, 1)>>

NoCommentTwice ==
    \A i, j \in 1..Len(NodesOf(forest)) :
        NodesOf(forest)[i].comment.id = NodesOf(forest)[j].comment.id => i = j

\* C5, as claimed: the forest holds as many nodes as the input has comments
\* that are neither dangling nor self-referential, and no comment twice.
C5_CountMinusDanglingAndSelfReferential ==
    tpc = "done" =>
        /\ Len(NodesOf(forest)) =
              Len(comments)
                - Cardinality({k \in 1..Len(comments) :
                                  \/ Dangling(comments, comments[k])
                                  \/ SelfReferential(comments[k])})
        /\ NoCommentTwice

\* C5, amended: the forest holds as many nodes as the input has comments whose
\* chain of parent_ids leads to a root; a dangling or self-referential comment,
\* every descendant of one and the comments of a parent cycle are left out; no
\* comment appears twice.
C5_CountOfRootedComments ==
    tpc = "done" =>
        /\ Len(NodesOf(forest)) =
              Len(comments)
                - Cardinality({k \in 1..Len(comments) :
                                  ~Rooted(comments, comments[k], Len(comments))})
        /\ \A k \in 1..Len(comments) :
              InForest(comments[k]) <=> Rooted(comments, comments[k], Len(comments))
        /\ NoCommentTwice

\* A root, a dangling comment and a reply to the dangling comment: only the
\* root is in the forest.
C5_ReplyToDanglingLeftOut ==
    /\ tpc = "done"
    /\ Len(comments) = 3
    /\ Len(NodesOf(forest)) = 1
    /\ \E i, j \in 1..Len(comments) :
          /\ Dangling(comments, comments[i])
          /\ comments[j].parent_id = comments[i].id
          /\ i /= j

\* C6, as claimed: a comment whose parent_id names no comment of the input is
\* absent from the forest and reported as a data-integrity warning, and the
\* forest of the other comments is still returned.
C6_DanglingAbsentAndFlagged ==
    tpc = "done" =>
        \A k \in 1..Len(comments) :
            Dangling(comments, comments[k]) =>
                /\ ~InForest(comments[k])
                /\ comments[k].id \in warnings

\* The part of C6 the code does keep: the dangling comment is not in the
\* forest, and the comments whose chain leads to a root all are.
DanglingAbsentOthersKept ==
    tpc = "done" =>
        \A k \in 1..Len(comments) :
            /\ Dangling(comments, comments[k]) => ~InForest(comments[k])
            /\ Rooted(comments, comments[k], Len(comments)) => InForest(comments[k])

\* C7, as claimed: a comment whose parent_id is its own id is placed in the
\* forest as a root-level node.
C7_SelfReferentialIsRoot ==
    tpc = "done" =>
        \A k \in 1..Len(comments) :
            SelfReferential(comments[k]) =>
                \E j \in 1..Len(forest) : forest[j].comment = comments[k]

\* The part of C7 the code does keep: with a self-referential comment in the
\* input the pass still finishes, and the comment is in no place of the forest.
SelfReferentialLeftOut ==
    tpc = "done" =>
        \A k \in 1..Len(comments) :
            SelfReferential(comments[k]) => ~InForest(comments[k])

\* every comment's chain of parent_ids leads to a root
WellFormed(list) == \A k \in 1..Len(list) : Rooted(list, list[k], Len(list))

\* the (parent id, child id) pairs of a forest, None standing for "is a root"
RECURSIVE Edges(_, _)
Edges(nodes, parent) ==
    UNION { {<<parent, nodes[k].comment.id>>}
                \cup Edges(nodes[k].replies, nodes[k].comment.id) :
            k \in 1..Len(nodes) }

\* a list of comments in ascending creation order
SortedByCreatedAt(list) ==
    [p \in 1..Len(list) |->
        list[CHOOSE i \in 1..Len(list) :
                Cardinality({j \in 1..Len(list) :
                                list[j].created_at < list[i].created_at}) = p - 1]]

\* C17: for a well-formed set of comments given in any order, parents before
\* or after their replies, every comment is in the forest under the node whose
\* id is its parent_id (the roots at the top), which is the parent-child
\* relation the input in creation order gives; only the order of siblings
\* follows the order of the input.
C17_AttachmentIndependentOfInputOrder ==
    (tpc = "done" /\ WellFormed(comments)) =>
        /\ \A k \in 1..Len(comments) : InForest(comments[k])
        /\ Edges(forest, Null)
              = {<<comments[k].parent_id, comments[k].id>> : k \in 1..Len(comments)}
        /\ LET sorted == SortedByCreatedAt(comments)
               dict == build_comment_tree(sorted)
           IN  Edges(forest, Null) = Edges(BuildNodes(dict, Get(dict, Null)), Null)
        /\ \A k \in 1..Len(NodesOf(forest)) :
              CommentsOf(NodesOf(forest)[k].replies)
                  = ChildrenOf(comments, NodesOf(forest)[k].comment.id)

\* The input lists a reply to a reply, then the reply, then the root: the
\* forest is the chain 1 - 2 - 3.
C17_RepliesBeforeParents ==
    /\ tpc = "done"
    /\ comments = <<Comment(3, 2), Comment(2, 1), Comment(1, Null)>>
    /\ Len(forest) = 1
    /\ forest[1].comment.id = 1
    /\ Len(forest[1].replies) = 1
    /\ forest[1].replies[1].comment.id = 2
    /\ CommentsOf(forest[1].replies[1].replies) = <<Comment(3, 2)>>

\* the number of parent_id steps from a rooted comment up to its root
RECURSIVE DepthOf(_, _)
DepthOf(list, c) ==
    IF c.parent_id = Null THEN 0
    ELSE 1 + DepthOf(list, list[CHOOSE k \in 1..Len(list) : list[k].id = c.parent_id])

\* C19: CommentTree renders every node of the forest, whatever its depth, once
\* and at its depth; the Reply button is on a comment if and only if the
\* comment's depth is below 4.
C19_AllNodesShownReplyBelowMaxDepth ==
    tpc = "shown" =>
        /\ Len(shown) = Len(NodesOf(forest))
        /\ \A k \in 1..Len(shown) :
              /\ shown[k].id = NodesOf(forest)[k].comment.id
              /\ shown[k].depth = DepthOf(comments, NodesOf(forest)[k].comment)
              /\ shown[k].reply <=> shown[k].depth < 4

\* A thread seven comments long: all seven are rendered, the comments at
\* depths 0 to 3 with a Reply button, those at depths 4, 5 and 6 without.
C19_DeepThreadShownWithoutReply ==
    /\ tpc = "shown"
    /\ comments = Chain(7)
    /\ Len(shown) = 7
    /\ \A k \in 1..7 : shown[k].depth = k - 1
    /\ shown[4].reply /\ ~shown[5].reply /\ ~shown[6].reply /\ ~shown[7].reply

----------------------------------------------------------------------------
(* Properties of the leaderboard (checked under SpecBoard)                 *)

\* the likes of a table received by author a at or after now - WindowHours
Qualifying(table, a) ==
    {k \in 1..Len(table) :
        table[k].author = a /\ table[k].created_at >= now - WindowHours}

QualifyingAll(table) ==
    {k \in 1..Len(table) : table[k].created_at >= now - WindowHours}

\* the karma a list of (author, karma) rows gives to a
RECURSIVE KarmaIn(_, _)
KarmaIn(rows, a) ==
    IF rows = <<>> THEN 0
    ELSE (IF Head(rows).author = a THEN Head(rows).karma ELSE 0)
            + KarmaIn(Tail(rows), a)

RECURSIVE SumKarma(_)
SumKarma(items) ==
    IF items = <<>> THEN 0 ELSE Head(items).karma + SumKarma(Tail(items))

\* the karma earned in the window, over all users
TotalQualifying ==
    PostLikeKarma * Cardinality(QualifyingAll(postLikes))
        + CommentLikeKarma * Cardinality(QualifyingAll(commentLikes))

\* C8: a like is counted if and only if its created_at >= now - 24 hours: once
\* the two aggregate queries have run, each author's post karma is 5 for every
\* post-like at or after the boundary and nothing for the earlier ones, and the
\* same with 1 for the comment-likes; an author with no such like has no row.
C8_WindowIsCreatedAtGteCutoff ==
    lpc \in {"combine", "sort", "done"} =>
        \A a \in BoardUsers :
            /\ KarmaIn(post_karma, a)
                  = PostLikeKarma * Cardinality(Qualifying(postLikes, a))
            /\ KarmaIn(comment_karma, a)
                  = CommentLikeKarma * Cardinality(Qualifying(commentLikes, a))
            /\ (\E k \in 1..Len(post_karma) : post_karma[k].author = a)
                  <=> Qualifying(postLikes, a) /= {}
            /\ (\E k \in 1..Len(comment_karma) : comment_karma[k].author = a)
                  <=> Qualifying(commentLikes, a) /= {}

\* An author with one post-like exactly at the boundary and one an hour before
\* it: the first is counted, the second is not.
C8_BoundaryCountedEarlierNot ==
    /\ lpc = "done"
    /\ \E i, j \in 1..Len(postLikes) :
          /\ postLikes[i].created_at = now - WindowHours
          /\ postLikes[j].created_at < now - WindowHours
          /\ postLikes[i].author = postLikes[j].author
          /\ post_karma = <<[author |-> postLikes[i].author, karma |-> PostLikeKarma]>>

\* C9: every user of the leaderboard is reported with 5 times the in-window
\* post-likes plus 1 times the in-window comment-likes whose target author is
\* that user; being the liker of an event earns nothing.
C9_KarmaGoesToTargetAuthor ==
    lpc = "done" =>
        \A k \in 1..Len(sorted_users) :
            sorted_users[k].karma
                = PostLikeKarma
                      * Cardinality(Qualifying(postLikes, sorted_users[k].user))
                  + CommentLikeKarma
                      * Cardinality(Qualifying(commentLikes, sorted_users[k].user))

\* One user is reported with 6 karma, for a post-like and a comment-like
\* received from another user, who is not on the leaderboard.
C9_AuthorEarnsLikerNot ==
    /\ lpc = "done"
    /\ Len(sorted_users) = 1
    /\ sorted_users[1].karma = PostLikeKarma + CommentLikeKarma
    /\ \E i \in 1..Len(postLikes), j \in 1..Len(commentLikes) :
          /\ postLikes[i].author = sorted_users[1].user
          /\ commentLikes[j].author = sorted_users[1].user
          /\ postLikes[i].user /= sorted_users[1].user
          /\ commentLikes[j].user = postLikes[i].user

\* C10, as claimed: the karma summed over the rows of the output is 5 times
\* the qualifying post-likes plus the qualifying comment-likes.
C10_OutputSumIsTotal ==
    lpc = "done" => SumKarma(sorted_users) = TotalQualifying

\* C10, amended: the karma summed over all users of the combined mapping,
\* before it is cut to the top 5, is 5 times the qualifying post-likes plus the
\* qualifying comment-likes; the rows of the output sum to that total when at
\* most 5 users earned karma and to less when more did.
C10_SumBeforeTruncationIsTotal ==
    /\ lpc \in {"sort", "done"} => SumKarma(user_karma) = TotalQualifying
    /\ lpc = "done" =>
          /\ Len(user_karma) <= TopN => SumKarma(sorted_users) = TotalQualifying
          /\ Len(user_karma) > TopN => SumKarma(sorted_users) < TotalQualifying

\* Six users earned 5 karma each: the five rows of the output sum to 25, the
\* mapping to 30.
C10_SixthEarnerCutOff ==
    /\ lpc = "done"
    /\ Len(user_karma) = TopN + 1
    /\ Len(sorted_users) = TopN
    /\ SumKarma(user_karma) = PostLikeKarma * (TopN + 1)
    /\ SumKarma(sorted_users) = PostLikeKarma * TopN

\* the users not on the leaderboard earned no more than any user on it
TopEarners ==
    \A i \in 1..Len(user_karma), k \in 1..Len(sorted_users) :
        (\A j \in 1..Len(sorted_users) : sorted_users[j].user /= user_karma[i].user)
            => user_karma[i].karma <= sorted_users[k].karma

DescendingKarma(items) ==
    \A i, j \in 1..Len(items) : i < j => items[i].karma >= items[j].karma

TiesAscendingUserId(items) ==
    \A i, j \in 1..Len(items) :
        (i < j /\ items[i].karma = items[j].karma) => items[i].user < items[j].user

\* C11, as claimed: the rows are in descending karma order, rows of equal karma
\* are in ascending user id order, and the rows are the top 5 earners: exactly
\* 5 rows when more than 5 users earned karma, all earners otherwise.
C11_DescendingTiesByUserIdTopN ==
    lpc = "done" =>
        /\ DescendingKarma(sorted_users)
        /\ TiesAscendingUserId(sorted_users)
        /\ Len(sorted_users) = (IF Len(user_karma) > TopN THEN TopN ELSE Len(user_karma))
        /\ TopEarners

\* The part of C11 the code does keep: descending karma, truncated to the top
\* 5 earners; rows of equal karma are in the order the dict received them.
DescendingAndTruncated ==
    lpc = "done" =>
        /\ DescendingKarma(sorted_users)
        /\ Len(sorted_users) = (IF Len(user_karma) > TopN THEN TopN ELSE Len(user_karma))
        /\ TopEarners
        /\ \A i, j \in 1..Len(sorted_users) :
              (i < j /\ sorted_users[i].karma = sorted_users[j].karma) =>
                  \E a, b \in 1..Len(user_karma) :
                      /\ a < b
                      /\ user_karma[a] = sorted_users[i]
                      /\ user_karma[b] = sorted_users[j]

\* User 2 earned 5 karma from a post-like and user 1 earned 5 karma from
\* comment-likes: the post karma is entered in the dict first, so user 2 is
\* listed before user 1 whatever order the queries return their rows in.
TiedPostAuthorFirst ==
    /\ lpc = "done"
    /\ postLikes = TiedPostLike(2)
    /\ commentLikes = TiedCommentLikes(1)
    /\ sorted_users = <<[user |-> 2, karma |-> PostLikeKarma],
                        [user |-> 1, karma |-> PostLikeKarma]>>

\* the events of a table that lie inside the window
InsideWindow(table) ==
    SelectSeq(table, LAMBDA row : row.created_at >= now - WindowHours)

\* rows is one of the results the aggregate query admits for a table: one row
\* per group, carrying the group's weighted count
AggregateOf(rows, table, cutoff, weight) ==
    /\ Len(rows) = Cardinality(Groups(table, cutoff))
    /\ \A k \in 1..Len(rows) :
          /\ rows[k].author \in Groups(table, cutoff)
          /\ rows[k].karma = CountFor(table, cutoff, rows[k].author) * weight
    /\ \A i, j \in 1..Len(rows) : rows[i].author = rows[j].author => i = j

\* the aggregate query sees the same groups with the same counts in a table and
\* in the table cut down beforehand to the likes inside the window
SameGroupsAsInsideWindow(table) ==
    /\ Groups(table, now - WindowHours) = Groups(InsideWindow(table), now - WindowHours)
    /\ \A a \in BoardUsers :
          CountFor(table, now - WindowHours, a)
              = CountFor(InsideWindow(table), now - WindowHours, a)

C13_SameArgumentsSameRows ==
    lpc = "done" =>
        \A o \in leaderboard(postLikes, commentLikes, now) : o = sorted_users

\* The request takes no now: it reads the clock itself, and the same tables
\* give other rows at another clock reading.
WallClockChangesRows ==
    /\ lpc = "done"
    /\ \E t \in Nows : sorted_users \notin leaderboard(postLikes, commentLikes, t)

\* Users 1 and 2 received one post-like each inside the window and the query
\* returned user 2's row first: user 2 is listed first.
TiedRowsInQueryOrder ==
    /\ lpc = "done"
    /\ Len(postLikes) = 2 /\ commentLikes = <<>>
    /\ now = 100
    /\ post_karma = <<[author |-> 2, karma |-> PostLikeKarma],
                      [author |-> 1, karma |-> PostLikeKarma]>>
    /\ sorted_users = <<[user |-> 2, karma |-> PostLikeKarma],
                        [user |-> 1, karma |-> PostLikeKarma]>>

\* C14: every row of the leaderboard has karma >= 1 and names a user who is
\* the author of a post or comment liked inside the window; a user with no such
\* like has no row, and with no such like at all the leaderboard is empty.
C14_NoRowWithoutQualifyingLike ==
    lpc = "done" =>
        /\ \A k \in 1..Len(sorted_users) :
              /\ sorted_users[k].karma >= 1
              /\ \/ Qualifying(postLikes, sorted_users[k].user) /= {}
                 \/ Qualifying(commentLikes, sorted_users[k].user) /= {}
        /\ (QualifyingAll(postLikes) = {} /\ QualifyingAll(commentLikes) = {})
              => sorted_users = <<>>

\* with no qualifying like the frontend shows the empty leaderboard
NoKarmaEarnedShown ==
    lpc = "shown" =>
        ((QualifyingAll(postLikes) = {} /\ QualifyingAll(commentLikes) = {})
            <=> board.empty)

\* One user's only like is too old and another user's like is inside the
\* window: the leaderboard has the second user alone.
C14_OnlyOldLikesNoRow ==
    /\ lpc = "done"
    /\ \E i, j \in 1..Len(postLikes) :
          /\ postLikes[i].created_at < now - WindowHours
          /\ Qualifying(postLikes, postLikes[i].author) = {}
          /\ Qualifying(commentLikes, postLikes[i].author) = {}
          /\ postLikes[j].created_at >= now - WindowHours
          /\ sorted_users = <<[user |-> postLikes[j].author, karma |-> PostLikeKarma]>>

\* C15: the leaderboard shown has at most 5 rows, the rows of sorted_users in
\* order; no user id is in two rows; the row at 0-based position i carries rank
\* i + 1, so the ranks are 1..k even between rows of equal karma.
C15_AtMostFiveRowsRankedByPosition ==
    lpc = "shown" =>
        /\ Len(board.rows) <= TopN
        /\ Len(board.rows) = Len(sorted_users)
        /\ \A i, j \in 1..Len(board.rows) :
              board.rows[i].id = board.rows[j].id => i = j
        /\ \A k \in 1..Len(board.rows) :
              /\ board.rows[k].rank = (k - 1) + 1
              /\ board.rows[k].id = sorted_users[k].user
              /\ board.rows[k].karma = sorted_users[k].karma
        /\ {board.rows[k].rank : k \in 1..Len(board.rows)} = 1..Len(board.rows)

\* Six users tie on 5 karma: five rows are shown, ranked 1 to 5.
C15_FiveTiedRowsRankedOneToFive ==
    /\ lpc = "shown"
    /\ Len(user_karma) = TopN + 1
    /\ Len(board.rows) = TopN
    /\ \A k \in 1..TopN : board.rows[k].karma = PostLikeKarma /\ board.rows[k].rank = k

----------------------------------------------------------------------------
(* Properties of the frontend like handlers (checked under SpecUi)         *)

\* C18: a click sends unlike when the flag on display is true and like
\* otherwise; when the request fails with a message that contains 'Already'
\* the error state stays as it is and nothing is reloaded; when it fails with
\* any other message the error state becomes that message and nothing is
\* reloaded; when it succeeds the data is reloaded.
C18_AlreadyIgnoredOthersShown ==
    [][/\ (upc = "idle" /\ upc' = "await") =>
              /\ sent'.op = (IF hasLiked THEN "unlike" ELSE "like")
              /\ sent'.kind = (IF handler' = "PostDetail.handleLikeComment"
                                  THEN "comment" ELSE "post")
       /\ (upc = "await" /\ upc' = "idle") =>
              /\ reloads' = reloads
              /\ IF \E i \in 1..Len(thrown') : thrown'[i] = "Already"
                    THEN error' = error
                    ELSE error' = thrown' /\ error' /= NoMessage
       /\ (upc = "await" /\ upc' = "loading") =>
              reloads' = reloads + 1 /\ error' = error
      ]_vars

\* One click succeeded and reloaded, one failed with 'Request failed', which is
\* in the error state, and the last one failed with 'Already liked this post',
\* which is not.
C18_AlreadyAfterOtherFailure ==
    /\ upc = "idle"
    /\ clicks = 3
    /\ reloads = 1
    /\ thrown = AlreadyLikedThisPost
    /\ error = RequestFailed

====
